---- MODULE Spec2Model ----
(***************************************************************************)
(* Model of video_silence_cleaner.py: the pure helpers (analyze_video,     *)
(* needs_preprocessing, get_target_crf, the cutter command construction),  *)
(* the background worker ProcessingThread and the part of MainWindow that  *)
(* starts, cancels and is notified by it.                                  *)
(*                                                                         *)
(* Text is a sequence of one-character strings, so that split, int(),      *)
(* float(), str() and lower() are computed character by character; the     *)
(* characters are those of Latin-1. A float is the exact rational [n, d]   *)
(* that its text or quotient denotes, with n and d inside the range of     *)
(* TLC's integers, or inf, -inf or nan; where the code compares floats     *)
(* (line 96) the rationals are rounded to doubles first.                   *)
(***************************************************************************)
EXTENDS Integers, Sequences, FiniteSets, TLC

\* An optional value is a sequence of length 0 or 1. A Python value is None or
\* Some(v); Raise is the outcome of an expression that raises an exception
\* instead of returning a value. A key of a dict is Absent or Present(x) with
\* x the Python value it holds, so Present(None) is a key that holds None
\* (JSON null).
None == <<>>

Absent == <<>>

Present(x) == <<x>>

Raise == <<>>

Some(v) == <<v>>

IsNone(o) == Len(o) = 0

Val(o) == o[1]

-----------------------------------------------------------------------------
(* Text helpers: the Python built-ins the helpers rely on.                 *)

DigitChars == <<"0", "1", "2", "3", "4", "5", "6", "7", "8", "9">>

\* The cased characters of Latin-1: A-Z and U+00C0..U+00DE without U+00D7.
UpperChars == <<"A", "B", "C", "D", "E", "F", "G", "H", "I", "J", "K", "L", "M",
                "N", "O", "P", "Q", "R", "S", "T", "U", "V", "W", "X", "Y", "Z",
                "À", "Á", "Â", "Ã", "Ä", "Å", "Æ", "Ç", "È", "É", "Ê", "Ë",
                "Ì", "Í", "Î", "Ï", "Ð", "Ñ", "Ò", "Ó", "Ô", "Õ", "Ö", "Ø",
                "Ù", "Ú", "Û", "Ü", "Ý", "Þ">>

LowerChars == <<"a", "b", "c", "d", "e", "f", "g", "h", "i", "j", "k", "l", "m",
                "n", "o", "p", "q", "r", "s", "t", "u", "v", "w", "x", "y", "z",
                "à", "á", "â", "ã", "ä", "å", "æ", "ç", "è", "é", "ê", "ë",
                "ì", "í", "î", "ï", "ð", "ñ", "ò", "ó", "ô", "õ", "ö", "ø",
                "ù", "ú", "û", "ü", "ý", "þ">>

\* The blanks int() and float() strip: space, tab, newline, carriage return,
\* form feed, no-break space U+00A0, and the two written here by name,
\* vertical tab U+000B and next line U+0085.
BlankChars == <<" ", "\t", "\n", "\r", "\f", " ", "<VT>", "<NEL>">>

IsDigit(c) == \E i \in 1..Len(DigitChars) : DigitChars[i] = c

IsBlank(c) == \E i \in 1..Len(BlankChars) : BlankChars[i] = c

DigitVal(c) == (CHOOSE i \in 1..Len(DigitChars) : DigitChars[i] = c) - 1

\* str.lower() on one character.
LowerChar(c) ==
    IF \E i \in 1..Len(UpperChars) : UpperChars[i] = c
    THEN LowerChars[CHOOSE i \in 1..Len(UpperChars) : UpperChars[i] = c]
    ELSE c

\* str.lower()
Lower(s) == [i \in 1..Len(s) |-> LowerChar(s[i])]

\* str(n) for an int n >= 0
RECURSIVE NatStr(_)
NatStr(n) ==
    IF n < 10 THEN <<DigitChars[n + 1]>>
    ELSE Append(NatStr(n \div 10), DigitChars[(n % 10) + 1])

\* str(n) for an int
IntStr(n) == IF n < 0 THEN <<"-">> \o NatStr(0 - n) ELSE NatStr(n)

\* c in s
HasChar(s, c) == \E i \in 1..Len(s) : s[i] = c

\* s.split(sep): the pieces between the occurrences of sep.
Split(s, sep) ==
    LET seps == {i \in 1..Len(s) : s[i] = sep}
        \* where the k-th sep is; 0 and Len(s) + 1 bound the first and last piece
        SepAt(k) == IF k = 0 THEN 0
                    ELSE IF k > Cardinality(seps) THEN Len(s) + 1
                    ELSE CHOOSE i \in seps : Cardinality({j \in seps : j <= i}) = k
    IN  [k \in 1..(Cardinality(seps) + 1) |-> SubSeq(s, SepAt(k - 1) + 1, SepAt(k) - 1)]

\* The text without the blanks int() and float() ignore at both ends.
Strip(s) ==
    LET kept == {i \in 1..Len(s) : ~IsBlank(s[i])}
    IN  IF kept = {} THEN <<>>
        ELSE SubSeq(s, CHOOSE i \in kept : \A j \in kept : i <= j,
                       CHOOSE i \in kept : \A j \in kept : j <= i)

\* Value of a run of digits.
RECURSIVE DigitsVal(_)
DigitsVal(s) ==
    IF Len(s) = 0 THEN 0
    ELSE 10 * DigitsVal(SubSeq(s, 1, Len(s) - 1)) + DigitVal(s[Len(s)])

\* Digits, with single underscores allowed between two digits.
AllDigits(s) ==
    /\ Len(s) > 0
    /\ \A i \in 1..Len(s) :
        \/ IsDigit(s[i])
        \/ /\ s[i] = "_"
           /\ 1 < i /\ i < Len(s)
           /\ IsDigit(s[i - 1]) /\ IsDigit(s[i + 1])

\* The digits of a text that AllDigits accepts.
Digits(s) == SelectSeq(s, IsDigit)

IsSign(c) == c = "+" \/ c = "-"

\* The text behind an optional sign, and the sign as a factor.
Unsigned(s) == IF Len(s) > 0 /\ IsSign(s[1]) THEN Tail(s) ELSE s

SignOf(s) == IF Len(s) > 0 /\ s[1] = "-" THEN 0 - 1 ELSE 1

\* A run of digits without its leading zeros.
Significant(s) ==
    IF \A i \in 1..Len(s) : s[i] = "0" THEN <<>>
    ELSE SubSeq(s, CHOOSE i \in 1..Len(s) : s[i] # "0" /\ \A j \in 1..(i - 1) : s[j] = "0", Len(s))

\* int(s): blanks around an optional sign and digits; anything else raises.
ParseInt(s) ==
    LET t == Strip(s)
    IN  IF AllDigits(Unsigned(t)) THEN Some(SignOf(t) * DigitsVal(Significant(Digits(Unsigned(t)))))
        ELSE Raise

RECURSIVE Pow10(_)
Pow10(k) == IF k = 0 THEN 1 ELSE 10 * Pow10(k - 1)

\* A float is the rational n/d it is nearest to, with d > 0 and the sign
\* carried by the numerator; d = 0 marks inf (n = 1), -inf (n = -1), nan (n = 0).
Rat(n, d) == IF d < 0 THEN [n |-> 0 - n, d |-> 0 - d] ELSE [n |-> n, d |-> d]

Inf(sign) == [n |-> sign, d |-> 0]

NaN == [n |-> 0, d |-> 0]

IsFinite(x) == x.d > 0

IsNaN(x) == x.d = 0 /\ x.n = 0

\* a < b for two runs of digits read as fractions 0.d1d2...
DigitsLess(a, b) ==
    LET At(s, i) == IF i <= Len(s) THEN DigitVal(s[i]) ELSE 0
        N == IF Len(a) > Len(b) THEN Len(a) ELSE Len(b)
    IN  \E i \in 1..N : At(a, i) < At(b, i) /\ \A j \in 1..(i - 1) : At(a, j) = At(b, j)

\* Where float() stops giving a finite non-zero double. A text is rounded to
\* the nearest double, ties to even: from 2^1024 - 2^970, halfway between the
\* largest double and 2^1024, it gives inf, and up to 2^-1075, half the
\* smallest double, it gives 0. MaxDoubleDigits are the digits of
\* 2^1024 - 2^970 = 0.1797...e309 and MinDoubleDigits those of
\* 2^-1075 = 5^1075 / 10^1075 = 0.2470...e-323, all of them.
MaxDecimalExp == 309

MaxDoubleDigits ==
    <<"1", "7", "9", "7", "6", "9", "3", "1", "3", "4", "8", "6", "2", "3", "1",
      "5", "8", "0", "7", "9", "3", "7", "2", "8", "9", "7", "1", "4", "0", "5",
      "3", "0", "3", "4", "1", "5", "0", "7", "9", "9", "3", "4", "1", "3", "2",
      "7", "1", "0", "0", "3", "7", "8", "2", "6", "9", "3", "6", "1", "7", "3",
      "7", "7", "8", "9", "8", "0", "4", "4", "4", "9", "6", "8", "2", "9", "2",
      "7", "6", "4", "7", "5", "0", "9", "4", "6", "6", "4", "9", "0", "1", "7",
      "9", "7", "7", "5", "8", "7", "2", "0", "7", "0", "9", "6", "3", "3", "0",
      "2", "8", "6", "4", "1", "6", "6", "9", "2", "8", "8", "7", "9", "1", "0",
      "9", "4", "6", "5", "5", "5", "5", "4", "7", "8", "5", "1", "9", "4", "0",
      "4", "0", "2", "6", "3", "0", "6", "5", "7", "4", "8", "8", "6", "7", "1",
      "5", "0", "5", "8", "2", "0", "6", "8", "1", "9", "0", "8", "9", "0", "2",
      "0", "0", "0", "7", "0", "8", "3", "8", "3", "6", "7", "6", "2", "7", "3",
      "8", "5", "4", "8", "4", "5", "8", "1", "7", "7", "1", "1", "5", "3", "1",
      "7", "6", "4", "4", "7", "5", "7", "3", "0", "2", "7", "0", "0", "6", "9",
      "8", "5", "5", "5", "7", "1", "3", "6", "6", "9", "5", "9", "6", "2", "2",
      "8", "4", "2", "9", "1", "4", "8", "1", "9", "8", "6", "0", "8", "3", "4",
      "9", "3", "6", "4", "7", "5", "2", "9", "2", "7", "1", "9", "0", "7", "4",
      "1", "6", "8", "4", "4", "4", "3", "6", "5", "5", "1", "0", "7", "0", "4",
      "3", "4", "2", "7", "1", "1", "5", "5", "9", "6", "9", "9", "5", "0", "8",
      "0", "9", "3", "0", "4", "2", "8", "8", "0", "1", "7", "7", "9", "0", "4",
      "1", "7", "4", "4", "9", "7", "7", "9", "2">>

MinDecimalExp == 0 - 323

MinDoubleDigits ==
    <<"2", "4", "7", "0", "3", "2", "8", "2", "2", "9", "2", "0", "6", "2", "3",
      "2", "7", "2", "0", "8", "8", "2", "8", "4", "3", "9", "6", "4", "3", "4",
      "1", "1", "0", "6", "8", "6", "1", "8", "2", "5", "2", "9", "9", "0", "1",
      "3", "0", "7", "1", "6", "2", "3", "8", "2", "2", "1", "2", "7", "9", "2",
      "8", "4", "1", "2", "5", "0", "3", "3", "7", "7", "5", "3", "6", "3", "5",
      "1", "0", "4", "3", "7", "5", "9", "3", "2", "6", "4", "9", "9", "1", "8",
      "1", "8", "0", "8", "1", "7", "9", "9", "6", "1", "8", "9", "8", "9", "8",
      "2", "8", "2", "3", "4", "7", "7", "2", "2", "8", "5", "8", "8", "6", "5",
      "4", "6", "3", "3", "2", "8", "3", "5", "5", "1", "7", "7", "9", "6", "9",
      "8", "9", "8", "1", "9", "9", "3", "8", "7", "3", "9", "8", "0", "0", "5",
      "3", "9", "0", "9", "3", "9", "0", "6", "3", "1", "5", "0", "3", "5", "6",
      "5", "9", "5", "1", "5", "5", "7", "0", "2", "2", "6", "3", "9", "2", "2",
      "9", "0", "8", "5", "8", "3", "9", "2", "4", "4", "9", "1", "0", "5", "1",
      "8", "4", "4", "3", "5", "9", "3", "1", "8", "0", "2", "8", "4", "9", "9",
      "3", "6", "5", "3", "6", "1", "5", "2", "5", "0", "0", "3", "1", "9", "3",
      "7", "0", "4", "5", "7", "6", "7", "8", "2", "4", "9", "2", "1", "9", "3",
      "6", "5", "6", "2", "3", "6", "6", "9", "8", "6", "3", "6", "5", "8", "4",
      "8", "0", "7", "5", "7", "0", "0", "1", "5", "8", "5", "7", "6", "9", "2",
      "6", "9", "9", "0", "3", "7", "0", "6", "3", "1", "1", "9", "2", "8", "2",
      "7", "9", "5", "5", "8", "5", "5", "1", "3", "3", "2", "9", "2", "7", "8",
      "3", "4", "3", "3", "8", "4", "0", "9", "3", "5", "1", "9", "7", "8", "0",
      "1", "5", "5", "3", "1", "2", "4", "6", "5", "9", "7", "2", "6", "3", "5",
      "7", "9", "5", "7", "4", "6", "2", "2", "7", "6", "6", "4", "6", "5", "2",
      "7", "2", "8", "2", "7", "2", "2", "0", "0", "5", "6", "3", "7", "4", "0",
      "0", "6", "4", "8", "5", "4", "9", "9", "9", "7", "7", "0", "9", "6", "5",
      "9", "9", "4", "7", "0", "4", "5", "4", "0", "2", "0", "8", "2", "8", "1",
      "6", "6", "2", "2", "6", "2", "3", "7", "8", "5", "7", "3", "9", "3", "4",
      "5", "0", "7", "3", "6", "3", "3", "9", "0", "0", "7", "9", "6", "7", "7",
      "6", "1", "9", "3", "0", "5", "7", "7", "5", "0", "6", "7", "4", "0", "1",
      "7", "6", "3", "2", "4", "6", "7", "3", "6", "0", "0", "9", "6", "8", "9",
      "5", "1", "3", "4", "0", "5", "3", "5", "5", "3", "7", "4", "5", "8", "5",
      "1", "6", "6", "6", "1", "1", "3", "4", "2", "2", "3", "7", "6", "6", "6",
      "7", "8", "6", "0", "4", "1", "6", "2", "1", "5", "9", "6", "8", "0", "4",
      "6", "1", "9", "1", "4", "4", "6", "7", "2", "9", "1", "8", "4", "0", "3",
      "0", "0", "5", "3", "0", "0", "5", "7", "5", "3", "0", "8", "4", "9", "0",
      "4", "8", "7", "6", "5", "3", "9", "1", "7", "1", "1", "3", "8", "6", "5",
      "9", "1", "6", "4", "6", "2", "3", "9", "5", "2", "4", "9", "1", "2", "6",
      "2", "3", "6", "5", "3", "8", "8", "1", "8", "7", "9", "6", "3", "6", "2",
      "3", "9", "3", "7", "3", "2", "8", "0", "4", "2", "3", "8", "9", "1", "0",
      "1", "8", "6", "7", "2", "3", "4", "8", "4", "9", "7", "6", "6", "8", "2",
      "3", "5", "0", "8", "9", "8", "6", "3", "3", "8", "8", "5", "8", "7", "9",
      "2", "5", "6", "2", "8", "3", "0", "2", "7", "5", "5", "9", "9", "5", "6",
      "5", "7", "5", "2", "4", "4", "5", "5", "5", "0", "7", "2", "5", "5", "1",
      "8", "9", "3", "1", "3", "6", "9", "0", "8", "3", "6", "2", "5", "4", "7",
      "7", "9", "1", "8", "6", "9", "4", "8", "6", "6", "7", "9", "9", "4", "9",
      "6", "8", "3", "2", "4", "0", "4", "9", "7", "0", "5", "8", "2", "1", "0",
      "2", "8", "5", "1", "3", "1", "8", "5", "4", "5", "1", "3", "9", "6", "2",
      "1", "3", "8", "3", "7", "7", "2", "2", "8", "2", "6", "1", "4", "5", "4",
      "3", "7", "6", "9", "3", "4", "1", "2", "5", "3", "2", "0", "9", "8", "5",
      "9", "1", "3", "2", "7", "6", "6", "7", "2", "3", "6", "3", "2", "8", "1",
      "2", "5">>

\* The value sign * digits * 10^exp10 as a float. Finite values are kept
\* exactly, as the ratio of two integers.
Decimal(sign, digits, exp10) ==
    LET sig == Significant(digits)
        magnitude == Len(sig) + exp10           \* the value is 0.sig * 10^magnitude
    IN  IF sig = <<>> THEN Rat(0, 1)
        ELSE IF \/ magnitude > MaxDecimalExp
                \/ magnitude = MaxDecimalExp /\ ~DigitsLess(sig, MaxDoubleDigits)
             THEN Inf(sign)
        ELSE IF \/ magnitude < MinDecimalExp
                \/ magnitude = MinDecimalExp /\ ~DigitsLess(MinDoubleDigits, sig)
             THEN Rat(0, 1)
        ELSE IF exp10 >= 0 THEN Rat(sign * DigitsVal(sig) * Pow10(exp10), 1)
        ELSE Rat(sign * DigitsVal(sig), Pow10(0 - exp10))

\* The exponent a run of digits writes; beyond MaxExponent every exponent
\* gives the same float, inf or 0.
MaxExponent == 1000000

Exponent(s) ==
    IF Len(Significant(s)) > Len(NatStr(MaxExponent)) THEN MaxExponent
    ELSE DigitsVal(Significant(s))

\* The index of the exponent marker of a decimal text, or 0.
ExpAt(s) ==
    IF \E i \in 1..Len(s) : s[i] \in {"e", "E"}
    THEN CHOOSE i \in 1..Len(s) : s[i] \in {"e", "E"} /\ \A j \in 1..(i - 1) : s[j] \notin {"e", "E"}
    ELSE 0

\* float(s) of an unsigned text without blanks: inf, infinity, nan in any
\* case, or digits with at most one '.' and an optional exponent.
ParseFloatUnsigned(s) ==
    LET at == ExpAt(s)
        mantissa == IF at = 0 THEN s ELSE SubSeq(s, 1, at - 1)
        exponent == IF at = 0 THEN <<"0">> ELSE SubSeq(s, at + 1, Len(s))
        parts == Split(mantissa, ".")
        whole == parts[1]
        frac == IF Len(parts) = 2 THEN parts[2] ELSE <<>>
    IN  IF Lower(s) \in {<<"i", "n", "f">>, <<"i", "n", "f", "i", "n", "i", "t", "y">>} THEN Some(Inf(1))
        ELSE IF Lower(s) = <<"n", "a", "n">> THEN Some(NaN)
        ELSE IF /\ Len(parts) <= 2
                /\ Len(whole) + Len(frac) > 0
                /\ Len(whole) = 0 \/ AllDigits(whole)
                /\ Len(frac) = 0 \/ AllDigits(frac)
                /\ AllDigits(Unsigned(exponent))
             THEN Some(Decimal(1, Digits(whole) \o Digits(frac),
                               SignOf(exponent) * Exponent(Digits(Unsigned(exponent)))
                                   - Len(Digits(frac))))
        ELSE Raise

\* float(s)
ParseFloat(s) ==
    LET t == Strip(s)
        r == ParseFloatUnsigned(Unsigned(t))
    IN  IF IsNone(r) THEN Raise
        ELSE Some([Val(r) EXCEPT !.n = SignOf(t) * @])

Abs(x) == IF x < 0 THEN 0 - x ELSE x

-----------------------------------------------------------------------------
(* Double arithmetic for line 96. A magnitude is a sequence of FixedLen    *)
(* bits, most significant first: IntBits bits in front of the binary point *)
(* and FracBits behind it. Numerators are below 2^31 and denominators      *)
(* below 2^30.                                                             *)

\* Significant bits of a double.
MantissaBits == 53

IntBits == 33

FracBits == 83

FixedLen == IntBits + FracBits

\* The k low bits of n, most significant first; n is below 2^31.
IntToBits(n, k) ==
    [i \in 1..k |-> IF k - i >= 31 THEN 0 ELSE (n \div 2^(k - i)) % 2]

\* The first k bits of r/d behind the binary point (r < d), and what is left.
RECURSIVE Expand(_, _, _)
Expand(r, d, k) ==
    IF k = 0 THEN [bits |-> <<>>, rem |-> r]
    ELSE IF k = 1
    THEN LET b == IF 2 * r >= d THEN 1 ELSE 0
         IN  [bits |-> <<b>>, rem |-> 2 * r - b * d]
    ELSE LET first == Expand(r, d, k \div 2)
             rest == Expand(first.rem, d, k - k \div 2)
         IN  [bits |-> first.bits \o rest.bits, rem |-> rest.rem]

\* bits + 1 in the place at index i: the carry runs up to the nearest 0.
AddOneAt(bits, i) ==
    LET stop == CHOOSE j \in 1..i : bits[j] = 0 /\ \A k \in (j + 1)..i : bits[k] = 1
    IN  [k \in 1..FixedLen |-> IF k = stop THEN 1
                               ELSE IF k > stop /\ k <= i THEN 0
                               ELSE bits[k]]

\* The double nearest to n/d (n >= 0, d > 0), ties to even.
RoundToDouble(n, d) ==
    LET e == Expand(n % d, d, FracBits)
        raw == IntToBits(n \div d, IntBits) \o e.bits
        lead == IF \E i \in 1..FixedLen : raw[i] = 1
                THEN CHOOSE i \in 1..FixedLen : raw[i] = 1 /\ \A j \in 1..(i - 1) : raw[j] = 0
                ELSE 0
        last == lead + MantissaBits - 1
        sticky == e.rem # 0 \/ \E j \in (last + 2)..FixedLen : raw[j] = 1
        kept == [i \in 1..FixedLen |-> IF i <= last THEN raw[i] ELSE 0]
    IN  IF lead = 0 \/ last >= FixedLen THEN raw
        ELSE IF raw[last + 1] = 1 /\ (sticky \/ raw[last] = 1) THEN AddOneAt(kept, last)
        ELSE kept

\* x > y on magnitudes
BitsGt(x, y) ==
    \E i \in 1..FixedLen : x[i] > y[i] /\ \A j \in 1..(i - 1) : x[j] = y[j]

\* The bits are added and subtracted in limbs of LimbBits bits.
LimbBits == 29

RECURSIVE BitsToInt(_)
BitsToInt(bits) ==
    IF Len(bits) = 0 THEN 0
    ELSE IF Len(bits) = 1 THEN bits[1]
    ELSE LET h == Len(bits) \div 2
         IN  BitsToInt(SubSeq(bits, 1, h)) * 2^(Len(bits) - h)
                 + BitsToInt(SubSeq(bits, h + 1, Len(bits)))

Limb(x, i) == BitsToInt(SubSeq(x, (i - 1) * LimbBits + 1, i * LimbBits))

\* Limbs 1..i of x + y (c = 1) or x - y (c = -1); from is the carry or
\* borrow that limb i receives.
RECURSIVE AddLimbs(_, _, _, _, _)
AddLimbs(x, y, c, i, from) ==
    IF i = 0 THEN <<>>
    ELSE LET t == Limb(x, i) + c * Limb(y, i) + c * from
             out == IF t >= 2^LimbBits \/ t < 0 THEN 1 ELSE 0
         IN  AddLimbs(x, y, c, i - 1, out) \o IntToBits(t - c * out * 2^LimbBits, LimbBits)

\* x + y, and x - y for x >= y
BitsAdd(x, y) == AddLimbs(x, y, 1, FixedLen \div LimbBits, 0)

BitsSub(x, y) == AddLimbs(x, y, 0 - 1, FixedLen \div LimbBits, 0)

\* Halfway between the double 2^p and the next double above it.
HalfwayAbove(p) ==
    [i \in 1..FixedLen |-> IF i = IntBits - p \/ i = IntBits - p + MantissaBits THEN 1 ELSE 0]

\* abs(a - b) > 2^p on doubles: the difference of the two doubles, rounded
\* to a double, is above 2^p exactly when it is above the halfway point
\* between 2^p and the next double.
DoubleAbsDiffGt(a, b, p) ==
    LET x == RoundToDouble(Abs(a.n), a.d)
        y == RoundToDouble(Abs(b.n), b.d)
        same == (a.n >= 0) = (b.n >= 0)
        diff == IF ~same THEN BitsAdd(x, y)
                ELSE IF BitsGt(y, x) THEN BitsSub(y, x)
                ELSE BitsSub(x, y)
    IN  BitsGt(diff, HalfwayAbove(p))

-----------------------------------------------------------------------------
(* analyze_video                                                           *)

\* d.get(key, default): the value the key holds, None included, and the
\* default only when the key is absent.
Get(rec, key, default) == IF rec[key] = Absent THEN default ELSE Val(rec[key])

DefaultFpsStr == <<"3", "0", "/", "1">>

DefaultFps == Rat(30, 1)

UnknownStr == <<"u", "n", "k", "n", "o", "w", "n">>

VfrTolerance == 2

\* Lines 83-87 and 91-95: one frame-rate value to a rate; zeroDen is the rate
\* taken when the denominator is 0. None is no text: '/' in None raises.
ParseRate(text, zeroDen) ==
    IF IsNone(text) THEN Raise
    ELSE IF HasChar(Val(text), "/")
    THEN LET parts == Split(Val(text), "/")
         IN  IF Len(parts) # 2 THEN Raise          \* unpacking num, den fails
             ELSE LET num == ParseInt(parts[1])
                      den == ParseInt(parts[2])
                  IN  IF IsNone(num) \/ IsNone(den) THEN Raise
                      ELSE IF Val(den) # 0 THEN Some(Rat(Val(num), Val(den)))
                      ELSE Some(zeroDen)
    ELSE ParseFloat(Val(text))

\* Lines 70-76: the first stream of the given codec_type, or None.
FirstStream(streams, type) ==
    IF \E i \in 1..Len(streams) : streams[i].codec_type = type
    THEN Some(streams[CHOOSE i \in 1..Len(streams) :
                    /\ streams[i].codec_type = type
                    /\ \A j \in 1..(i - 1) : streams[j].codec_type # type])
    ELSE None

\* The VFR flag of line 96: abs(fps - avg_fps) > 2.0 on doubles. A nan on
\* either side, or inf - inf, compares false.
IsVfr(fps, avg_fps) ==
    IF IsNaN(fps) \/ IsNaN(avg_fps) THEN FALSE
    ELSE IF ~IsFinite(fps) /\ ~IsFinite(avg_fps) THEN fps.n # avg_fps.n
    ELSE IF ~IsFinite(fps) \/ ~IsFinite(avg_fps) THEN TRUE
    ELSE DoubleAbsDiffGt(fps, avg_fps, CHOOSE p \in 0..(IntBits - 1) : 2^p = VfrTolerance)

\* float(d.get(key, 0)) for a key that holds text: 0 when the key is
\* absent, a raise when it holds None.
GetFloat(rec, key) ==
    IF rec[key] = Absent THEN Some(Rat(0, 1))
    ELSE IF IsNone(Val(rec[key])) THEN Raise
    ELSE ParseFloat(Val(Val(rec[key])))

\* int(d.get(key, 0)) for a key that holds text.
GetIntOfText(rec, key) ==
    IF rec[key] = Absent THEN Some(0)
    ELSE IF IsNone(Val(rec[key])) THEN Raise
    ELSE ParseInt(Val(Val(rec[key])))

\* int(d.get(key, 0)) for a key that holds a JSON integer.
GetInt(rec, key) ==
    IF rec[key] = Absent THEN Some(0) ELSE Val(rec[key])

NoFormat == [duration |-> Absent, bit_rate |-> Absent]

\* analyze_video(path), given what ffprobe does for that path: probe.raises
\* (subprocess.run or json.loads raises), probe.returncode, and the keys
\* streams and format of the JSON object it prints. Of a stream, codec_name,
\* r_frame_rate and avg_frame_rate hold text and width and height integers;
\* of format, duration and bit_rate hold text. Returns a VideoInfo record or
\* None; every raise inside is caught at line 114.
analyze_video(probe) ==
    IF probe.raises THEN None
    ELSE IF probe.returncode # 0 THEN None
    ELSE LET streams == Get(probe, "streams", Some(<<>>))
         IN  IF IsNone(streams) THEN None              \* iterating None raises
             ELSE LET video_stream == FirstStream(Val(streams), "video")
                      audio_stream == FirstStream(Val(streams), "audio")
                      format_info == Get(probe, "format", Some(NoFormat))
                  IN  IF IsNone(video_stream) THEN None
                      ELSE LET vs == Val(video_stream)
                               fps_str == Get(vs, "r_frame_rate", Some(DefaultFpsStr))
                               fps == ParseRate(fps_str, DefaultFps)
                           IN  IF IsNone(fps) THEN None
                               ELSE LET avg_fps_str == Get(vs, "avg_frame_rate", fps_str)
                                        avg_fps == ParseRate(avg_fps_str, Val(fps))
                                    IN  IF IsNone(avg_fps) \/ IsNone(format_info) THEN None
                                        ELSE LET duration == GetFloat(Val(format_info), "duration")
                                                 bit_rate == GetIntOfText(Val(format_info), "bit_rate")
                                                 width == GetInt(vs, "width")
                                                 height == GetInt(vs, "height")
                                             IN  IF IsNone(duration) \/ IsNone(bit_rate)
                                                    \/ IsNone(width) \/ IsNone(height)
                                                 THEN None
                                                 ELSE Some([codec |-> Get(vs, "codec_name", Some(UnknownStr)),
                                                            width |-> Val(width),
                                                            height |-> Val(height),
                                                            fps |-> Val(fps),
                                                            duration |-> Val(duration),
                                                            bitrate |-> Val(bit_rate) \div 1000,
                                                            audio_codec |-> IF IsNone(audio_stream)
                                                                            THEN Some(<<"n", "o", "n", "e">>)
                                                                            ELSE Get(Val(audio_stream), "codec_name", Some(UnknownStr)),
                                                            is_variable_framerate |-> IsVfr(Val(fps), Val(avg_fps))])

-----------------------------------------------------------------------------
-----------------------------------------------------------------------------
(* needs_preprocessing                                                     *)

problematic_codecs ==
    << <<"a", "v", "1">>,
       <<"m", "p", "e", "g", "2", "v", "i", "d", "e", "o">>,
       <<"m", "p", "e", "g", "1", "v", "i", "d", "e", "o">>,
       <<"w", "m", "v", "3">>,
       <<"t", "h", "e", "o", "r", "a">> >>

InList(x, list) == \E i \in 1..Len(list) : list[i] = x

\* The codec test without lower().
IsProblematicCodec_CaseSensitive(codec) == InList(codec, problematic_codecs)

\* Line 129
IsProblematicCodec(codec) == InList(Lower(codec), problematic_codecs)

\* The issue list; an issue is its kind and, for a codec issue, the codec
\* name the message quotes. A codec of None has no lower(): line 129 raises.
needs_preprocessing(info) ==
    IF IsNone(info.codec) THEN Raise
    ELSE Some((IF info.is_variable_framerate THEN << <<"vfr">> >> ELSE <<>>)
              \o (IF IsProblematicCodec(Val(info.codec))
                  THEN << <<"codec", Val(info.codec)>> >> ELSE <<>>))

-----------------------------------------------------------------------------
(* get_target_crf                                                          *)

\* get_target_crf with the first threshold compared inclusively.
get_target_crf_inclusive(original_bitrate_kbps) ==
    IF original_bitrate_kbps >= 20000 THEN 18
    ELSE IF original_bitrate_kbps > 8000 THEN 20
    ELSE IF original_bitrate_kbps > 4000 THEN 22
    ELSE 23

get_target_crf(original_bitrate_kbps) ==
    IF original_bitrate_kbps > 20000 THEN 18
    ELSE IF original_bitrate_kbps > 8000 THEN 20
    ELSE IF original_bitrate_kbps > 4000 THEN 22
    ELSE 23

-----------------------------------------------------------------------------
(* The cutter command, lines 229-251. An argument is a sequence of text     *)
(* pieces: a literal is one piece, an f-string the pieces it concatenates.  *)

ThresholdDefault == 4

MarginDefault == 6

SilentSpeedDefault == 99999

AutoEditorPaths == << <<"/usr/bin/auto-editor">>, <<"/usr/local/bin/auto-editor">> >>

\* Lines 230-234: the first of the two fixed locations that exists, else the
\* bare name for the PATH lookup. existing is the set of existing paths.
find_auto_editor(existing) ==
    IF \E i \in 1..Len(AutoEditorPaths) : AutoEditorPaths[i] \in existing
    THEN AutoEditorPaths[CHOOSE i \in 1..Len(AutoEditorPaths) :
                            /\ AutoEditorPaths[i] \in existing
                            /\ \A j \in 1..(i - 1) : AutoEditorPaths[j] \notin existing]
    ELSE <<"auto-editor">>

\* str(v) inside an f-string, for an int or None
PyStr(v) == IF IsNone(v) THEN <<"None">> ELSE IntStr(Val(v))

ThresholdArgs(threshold) ==
    IF threshold # Some(ThresholdDefault)
    THEN << <<"--edit">>, <<"audio:threshold=">> \o PyStr(threshold) \o <<"%">> >>
    ELSE <<>>

\* The margin flag tested against the threshold's default.
MarginArgs_WrongDefault(margin) ==
    IF margin # Some(ThresholdDefault)
    THEN << <<"--margin">>, PyStr(margin) \o <<"f">> >>
    ELSE <<>>

MarginArgs(margin) ==
    IF margin # Some(MarginDefault)
    THEN << <<"--margin">>, PyStr(margin) \o <<"f">> >>
    ELSE <<>>

SilentSpeedArgs(silent_speed) ==
    IF silent_speed # Some(SilentSpeedDefault)
    THEN << <<"--silent-speed">>, PyStr(silent_speed) >>
    ELSE <<>>

\* Lines 237-251. A key of options is Absent or Present(v), v an int or None.
cutter_cmd(auto_editor_cmd, working_file, output_path, options) ==
    << auto_editor_cmd, working_file, <<"-o">>, output_path >>
    \o ThresholdArgs(Get(options, "threshold", Some(ThresholdDefault)))
    \o MarginArgs(Get(options, "margin", Some(MarginDefault)))
    \o SilentSpeedArgs(Get(options, "silent_speed", Some(SilentSpeedDefault)))

\* Lines 196-208: the re-encoder command.
ffmpeg_cmd(input_path, crf, temp_file) ==
    << <<"ffmpeg">>, <<"-y">>, <<"-i">>, input_path,
       <<"-c:v">>, <<"libx264">>, <<"-preset">>, <<"fast">>,
       <<"-crf">>, IntStr(crf), <<"-c:a">>, <<"aac">>,
       <<"-colorspace">>, <<"bt709">>, <<"-color_primaries">>, <<"bt709">>,
       <<"-color_trc">>, <<"bt709">>, <<"-map_metadata">>, <<"-1">>,
       <<"-pix_fmt">>, <<"yuv420p">>, temp_file >>

-----------------------------------------------------------------------------
(* Bounds and the inputs the worker is run on.                             *)

\* Threads started in one behaviour.
MaxRuns == 2

\* Iterations of the polling loop that read a line or time out.
MaxPolls == 2

\* The clock advances in ticks of TickSeconds, up to MaxTicks ticks.
TickSeconds == 4

MaxTicks == 3

Runs == 1..MaxRuns

Text(s) == <<s>>

InputPath == Text("input.mp4")

OutputPath == Text("input_cleaned.mp4")

TempFile == Text("<tmp>/preprocessed.mp4")

VideoStream(r, avg) ==
    [codec_type |-> "video", codec_name |-> Present(Some(<<"h", "2", "6", "4">>)),
     width |-> Present(Some(1920)), height |-> Present(Some(1080)),
     r_frame_rate |-> r, avg_frame_rate |-> avg]

\* What ffprobe may answer while the worker runs: a non-zero exit, or one
\* video stream of the given duration (seconds) and bit rate (bits/s).
ProbeOk(duration, bit_rate) ==
    [raises |-> FALSE, returncode |-> 0,
     streams |-> Present(Some(<< VideoStream(Present(Some(DefaultFpsStr)),
                                             Present(Some(DefaultFpsStr))) >>)),
     format |-> Present(Some([duration |-> Present(Some(NatStr(duration))),
                              bit_rate |-> Present(Some(NatStr(bit_rate)))]))]

ProbeFailed ==
    [raises |-> FALSE, returncode |-> 1, streams |-> Absent, format |-> Absent]

WorkerProbes == {ProbeFailed, ProbeOk(10, 5000000)}

\* The options start_processing gathers from the widgets (lines 636-641).
WorkerOptions ==
    {[threshold |-> Present(Some(t)), margin |-> Present(Some(MarginDefault)),
      auto_fix |-> Present(Some(a)), silent_speed |-> Present(Some(SilentSpeedDefault))] :
        t \in {10}, a \in BOOLEAN}

\* A line of the cutter's output: its kind and, for a percentage line, the
\* text in front of the '%'.
CutterLines ==
    {[kind |-> "analyze", pct |-> <<>>], [kind |-> "render", pct |-> <<>>],
     [kind |-> "other", pct |-> <<>>]}
    \cup {[kind |-> "percent", pct |-> t] : t \in {NatStr(0), NatStr(50), NatStr(100), NatStr(101), <<"x">>,
                                                  <<"+", "5", "0">>, <<"5", "e", "1">>, <<"1", "E", "2">>,
                                                  <<"n", "a", "n">>, <<"i", "n", "f">>}}

-----------------------------------------------------------------------------
(* State.                                                                  *)

VARIABLES
    pc,                \* per thread: where run()/_process() stands
    cancelled,         \* per thread: self._cancelled
    options,           \* per thread: self.options
    emitted,           \* per thread: the signals emitted so far, in order
    delivered,         \* per thread: how many of them the GUI thread has handled
    started,           \* per thread: the child processes launched so far
    info,              \* per thread: the local info of _process
    temp,              \* per thread: temp_file and the state of its directory
    working_file,      \* per thread: the local working_file
    cutter,            \* per thread: the cutter child process
    polls,             \* per thread: loop iterations that read or timed out
    elapsed,           \* per thread: ticks since start_time
    failure,           \* per thread: the step whose failure the worker met, if any
    processing_thread, \* MainWindow.processing_thread: 0 is None
    process_btn,       \* MainWindow.process_btn: enabled, visible
    cancel_btn,        \* MainWindow.cancel_btn: enabled, visible
    progress_bar,      \* MainWindow.progress_bar value
    dialog,            \* the modal QMessageBox that is open, or "none"
    call               \* a call of one of the module-level helpers

workerVars == <<pc, cancelled, options, emitted, started, info, temp,
                working_file, cutter, polls, elapsed, failure>>

guiVars == <<processing_thread, process_btn, cancel_btn, progress_bar, dialog, delivered>>

vars == <<workerVars, guiVars, call>>

NoCall == [op |-> "none"]

NoOptions ==
    [threshold |-> Absent, margin |-> Absent, auto_fix |-> Absent, silent_speed |-> Absent]

\* kind: "none", or the step that failed; launched: the child processes the
\* thread had launched when it met the failure.
NoFailure == [kind |-> "none", launched |-> 0]

NoTemp == [temp_file |-> None, dir |-> "none", file |-> FALSE]

Init ==
    /\ pc = [w \in Runs |-> "idle"]
    /\ cancelled = [w \in Runs |-> FALSE]
    /\ options = [w \in Runs |-> NoOptions]
    /\ emitted = [w \in Runs |-> <<>>]
    /\ delivered = [w \in Runs |-> 0]
    /\ started = [w \in Runs |-> <<>>]
    /\ info = [w \in Runs |-> None]
    /\ temp = [w \in Runs |-> NoTemp]
    /\ working_file = [w \in Runs |-> InputPath]
    /\ cutter = [w \in Runs |-> "none"]
    /\ polls = [w \in Runs |-> 0]
    /\ elapsed = [w \in Runs |-> 0]
    /\ failure = [w \in Runs |-> NoFailure]
    /\ processing_thread = 0
    /\ process_btn = [enabled |-> FALSE, visible |-> TRUE]
    /\ cancel_btn = [enabled |-> FALSE, visible |-> FALSE]
    /\ progress_bar = 0 - 1       \* a QProgressBar starts reset: minimum - 1
    /\ dialog = "none"
    /\ call = NoCall

-----------------------------------------------------------------------------
(* ProcessingThread                                                        *)

Progress(percent, status) == [sig |-> "progress", percent |-> percent, status |-> status]

Finished(success, message) == [sig |-> "finished", success |-> success, message |-> message]

\* self.progress.emit / self.finished.emit: queued to the GUI thread.
EmitAll(w, sigs) == emitted' = [emitted EXCEPT ![w] = @ \o sigs]

Emit(w, sig) == EmitAll(w, <<sig>>)

\* A child process launched by the worker; flag is self._cancelled then, and
\* end_flag says whether it was set when the worker saw the step end.
Launch(w, step, cmd) ==
    started' = [started EXCEPT ![w] = Append(@, [step |-> step, cmd |-> cmd,
                                                 flag |-> cancelled[w], end_flag |-> "running"])]

\* The worker is handed the result of the step it launched last.
StepEnds(w) ==
    started' = [started EXCEPT ![w][Len(started[w])].end_flag =
                    IF cancelled[w] THEN "set" ELSE "unset"]

\* _cleanup(temp_file), lines 320-326
CleanedUp(t) ==
    IF ~IsNone(t.temp_file) /\ t.file
    THEN [t EXCEPT !.dir = "removed", !.file = FALSE]
    ELSE t

\* The worker meets the failure of a step.
Fails(w, kind) ==
    failure' = [failure EXCEPT ![w] = [kind |-> kind, launched |-> Len(started[w])]]

\* An exception leaves _process and reaches run()'s handler, lines 168-169;
\* sigs is what the step had emitted before the call that raised. Nothing
\* is cleaned up and no child process is stopped on this way out.
RunExcept(w, sigs) ==
    /\ Fails(w, "exception")
    /\ EmitAll(w, sigs \o <<Finished(FALSE, "Error")>>)
    /\ pc' = [pc EXCEPT ![w] = "exiting"]

\* Lines 172-173
W_CheckEntry(w) ==
    /\ pc[w] = "entry"
    /\ pc' = [pc EXCEPT ![w] = IF cancelled[w] THEN "exiting" ELSE "step1"]
    /\ UNCHANGED <<cancelled, options, failure, emitted, started, info, temp, working_file,
                   cutter, polls, elapsed, guiVars, call>>

\* Lines 176-177: the probe is launched
W_Analyze(w) ==
    /\ pc[w] = "step1"
    /\ Emit(w, Progress(5, "Analyzing video..."))
    /\ Launch(w, "probe", << <<"ffprobe">>, InputPath >>)
    /\ pc' = [pc EXCEPT ![w] = "probing"]
    /\ UNCHANGED <<cancelled, options, failure, info, temp, working_file, cutter, polls,
                   elapsed, guiVars, call>>

\* Lines 177-180: the probe has answered
W_Analyzed(w) ==
    /\ pc[w] = "probing"
    /\ StepEnds(w)
    /\ \E probe \in WorkerProbes :
        LET i == analyze_video(probe)
        IN  /\ info' = [info EXCEPT ![w] = i]
            /\ IF IsNone(i)
               THEN /\ Fails(w, "probe")
                    /\ Emit(w, Finished(FALSE, "Failed to analyze video file"))
                    /\ pc' = [pc EXCEPT ![w] = "exiting"]
               ELSE /\ pc' = [pc EXCEPT ![w] = "step2"]
                    /\ UNCHANGED <<emitted, failure>>
    /\ UNCHANGED <<cancelled, options, temp, working_file, cutter, polls,
                   elapsed, guiVars, call>>

\* Lines 187-193: auto_fix decides whether the re-encode step runs; when it
\* does, tempfile.mkdtemp (line 190) makes the directory, or raises and
\* makes none.
W_Preprocess(w) ==
    /\ pc[w] = "step2"
    /\ IF Get(options[w], "auto_fix", Some(TRUE)) = Some(TRUE)
       THEN \/ /\ Emit(w, Progress(10, "Preprocessing video for compatibility..."))
               /\ temp' = [temp EXCEPT ![w] = [temp_file |-> Some(TempFile), dir |-> "exists", file |-> FALSE]]
               /\ pc' = [pc EXCEPT ![w] = "popen_ffmpeg"]
               /\ UNCHANGED failure
            \/ /\ RunExcept(w, <<Progress(10, "Preprocessing video for compatibility...")>>)
               /\ UNCHANGED temp
       ELSE /\ pc' = [pc EXCEPT ![w] = "check2"]
            /\ UNCHANGED <<emitted, temp, failure>>
    /\ UNCHANGED <<cancelled, options, started, info, working_file, cutter, polls,
                   elapsed, guiVars, call>>

\* Lines 210-212: Popen launches the re-encoder, or raises
W_StartFfmpeg(w) ==
    /\ pc[w] = "popen_ffmpeg"
    /\ \/ /\ Launch(w, "reencode",
                    ffmpeg_cmd(InputPath, get_target_crf(Val(info[w]).bitrate), TempFile))
          /\ pc' = [pc EXCEPT ![w] = "reencoding"]
          /\ UNCHANGED <<emitted, failure>>
       \/ /\ RunExcept(w, <<>>)
          /\ UNCHANGED started
    /\ UNCHANGED <<cancelled, options, info, temp, working_file, cutter, polls,
                   elapsed, guiVars, call>>

\* Lines 213-220: the re-encoder has exited, with status 0 or not, having
\* written the temporary file or not. On a non-zero status the message is
\* built from stderr.decode() (line 216), which raises before the emit when
\* the bytes are not UTF-8.
W_FfmpegDone(w) ==
    /\ pc[w] = "reencoding"
    /\ StepEnds(w)
    /\ \E returncode \in {0, 1}, wrote \in BOOLEAN, decodable \in BOOLEAN :
        /\ temp' = [temp EXCEPT ![w].file = wrote]
        /\ IF returncode # 0 /\ ~decodable
           THEN /\ RunExcept(w, <<>>)
                /\ UNCHANGED working_file
           ELSE IF returncode # 0
           THEN /\ Fails(w, "reencode")
                /\ Emit(w, Finished(FALSE, "Preprocessing failed"))
                /\ pc' = [pc EXCEPT ![w] = "exiting"]
                /\ UNCHANGED working_file
           ELSE /\ working_file' = [working_file EXCEPT ![w] = TempFile]
                /\ Emit(w, Progress(30, "Preprocessing complete"))
                /\ pc' = [pc EXCEPT ![w] = "check2"]
                /\ UNCHANGED failure
    /\ UNCHANGED <<cancelled, options, info, cutter, polls, elapsed,
                   guiVars, call>>

\* Lines 222-227
W_CheckBeforeCutter(w) ==
    /\ pc[w] = "check2"
    /\ IF cancelled[w]
       THEN /\ temp' = [temp EXCEPT ![w] = CleanedUp(@)]
            /\ pc' = [pc EXCEPT ![w] = "exiting"]
            /\ UNCHANGED emitted
       ELSE /\ Emit(w, Progress(35, "Running auto-editor..."))
            /\ pc' = [pc EXCEPT ![w] = "popen_cutter"]
            /\ UNCHANGED temp
    /\ UNCHANGED <<cancelled, options, failure, started, info, working_file, cutter, polls,
                   elapsed, guiVars, call>>

\* Lines 230-263: the command is built and Popen launches the cutter, or raises
W_StartCutter(w) ==
    /\ pc[w] = "popen_cutter"
    /\ \/ /\ \E existing \in {{AutoEditorPaths[2]}} :
                Launch(w, "cutter",
                       cutter_cmd(find_auto_editor(existing), working_file[w],
                                  OutputPath, options[w]))
          /\ cutter' = [cutter EXCEPT ![w] = "running"]
          /\ pc' = [pc EXCEPT ![w] = "loop"]
          /\ UNCHANGED <<emitted, failure>>
       \/ /\ RunExcept(w, <<>>)
          /\ UNCHANGED <<started, cutter>>
    /\ UNCHANGED <<cancelled, options, info, temp, working_file, polls, elapsed,
                   guiVars, call>>

\* A polling loop whose iterations do not look at the flag.
W_LoopCheck_Unchecked(w) ==
    /\ pc[w] = "loop"
    /\ pc' = [pc EXCEPT ![w] = "select"]
    /\ UNCHANGED <<cancelled, options, failure, emitted, started, info, temp, working_file,
                   cutter, polls, elapsed, guiVars, call>>

\* Lines 266-269: the cancel check that opens each iteration
W_LoopCheck(w) ==
    /\ pc[w] = "loop"
    /\ IF cancelled[w]
       THEN /\ cutter' = [cutter EXCEPT ![w] = IF @ = "running" THEN "terminated" ELSE @]
            /\ temp' = [temp EXCEPT ![w] = CleanedUp(@)]
            /\ pc' = [pc EXCEPT ![w] = "exiting"]
       ELSE /\ pc' = [pc EXCEPT ![w] = "select"]
            /\ UNCHANGED <<cutter, temp>>
    /\ UNCHANGED <<cancelled, options, failure, emitted, started, info, working_file, polls,
                   elapsed, guiVars, call>>

\* int(x) of a rational x >= 0
RatFloor(n, d) == n \div d

\* Lines 283-297: the signals one non-empty output line gives rise to
LineSignals(line) ==
    IF line.kind = "analyze" THEN <<Progress(40, "Analyzing audio for silence...")>>
    ELSE IF line.kind = "render" THEN <<Progress(60, "Rendering edited video...")>>
    ELSE IF line.kind = "percent"
    THEN LET pct == ParseFloat(line.pct)
         IN  IF IsNone(pct) THEN <<>>
             ELSE IF IsFinite(Val(pct)) /\ 0 <= Val(pct).n /\ Val(pct).n <= 100 * Val(pct).d
             THEN <<Progress(40 + RatFloor(Val(pct).n * 55, Val(pct).d * 100), "Processing")>>
             ELSE <<>>
    ELSE <<>>

\* max(estimated_duration, 1) of line 304: the duration when it is above 1
\* or nan, else 1.
MaxWithOne(duration) ==
    IF IsFinite(duration)
    THEN IF duration.n > duration.d THEN duration ELSE Rat(1, 1)
    ELSE IF duration.n >= 0 THEN duration ELSE Rat(1, 1)

\* The estimate without the min(95, ...) of line 304.
TimeSignals_Uncapped(elapsed_s, duration) ==
    LET longest == MaxWithOne(duration)
        den == longest.n
        num == elapsed_s * 100 * longest.d
    IN  IF IsNaN(longest) \/ ~IsFinite(longest) THEN <<>>
        ELSE IF num > 40 * den
        THEN <<Progress(RatFloor(35 * den * 10 + num * 6, den * 10), "last_status")>>
        ELSE <<>>

\* Lines 302-306: the estimate after elapsed_s seconds; duration is
\* info.duration, a float. elapsed / nan is nan and min(95, nan) is 95;
\* elapsed / inf is 0.
TimeSignals(elapsed_s, duration) ==
    LET longest == MaxWithOne(duration)
        den == longest.n
        capped == IsNaN(longest) \/ elapsed_s * 100 * longest.d > 95 * den   \* min(95, ...)
        num == IF capped THEN 95 * den ELSE elapsed_s * 100 * longest.d
    IN  IF IsNaN(longest) THEN <<Progress(35 + RatFloor(95 * 6, 10), "last_status")>>
        ELSE IF ~IsFinite(longest) THEN <<>>
        ELSE IF num > 40 * den
        THEN <<Progress(RatFloor(35 * den * 10 + num * 6, den * 10), "last_status")>>
        ELSE <<>>

\* Lines 275-297: select reports output. readline() (line 276) returns a
\* line, or raises on bytes it cannot decode: the exception leaves the loop
\* with the cutter as it is.
W_ReadLine(w) ==
    /\ pc[w] = "select"
    /\ cutter[w] # "none"
    /\ \/ /\ polls[w] < MaxPolls
          /\ \E line \in CutterLines : EmitAll(w, LineSignals(line))
          /\ polls' = [polls EXCEPT ![w] = @ + 1]
          /\ pc' = [pc EXCEPT ![w] = "loop"]
          /\ UNCHANGED failure
       \/ /\ RunExcept(w, <<>>)
          /\ UNCHANGED polls
    /\ UNCHANGED <<cancelled, options, started, info, temp, working_file, cutter,
                   elapsed, guiVars, call>>

\* Lines 298-306: select times out while the cutter runs
W_Timeout(w) ==
    /\ pc[w] = "select"
    /\ cutter[w] = "running"
    /\ polls[w] < MaxPolls
    /\ \E t \in elapsed[w]..MaxTicks :
        /\ elapsed' = [elapsed EXCEPT ![w] = t]
        /\ EmitAll(w, TimeSignals(t * TickSeconds, Val(info[w]).duration))
    /\ polls' = [polls EXCEPT ![w] = @ + 1]
    /\ pc' = [pc EXCEPT ![w] = "loop"]
    /\ UNCHANGED <<cancelled, options, failure, started, info, temp, working_file, cutter,
                   guiVars, call>>

\* Lines 277-278 and 300-301: the cutter has exited and the loop is left
W_Break(w) ==
    /\ pc[w] = "select"
    /\ cutter[w] \in {"exited_ok", "exited_err"}
    /\ StepEnds(w)
    /\ pc' = [pc EXCEPT ![w] = "after_loop"]
    /\ UNCHANGED <<cancelled, options, failure, emitted, info, temp, working_file,
                   cutter, polls, elapsed, guiVars, call>>

\* The cutter child exits on its own, with status 0 or not.
CutterExits(w) ==
    /\ cutter[w] = "running"
    /\ \E c \in {"exited_ok", "exited_err"} : cutter' = [cutter EXCEPT ![w] = c]
    /\ UNCHANGED <<pc, cancelled, options, failure, emitted, started, info, temp,
                   working_file, polls, elapsed, guiVars, call>>

\* Lines 308-318
W_AfterLoop(w) ==
    /\ pc[w] = "after_loop"
    /\ IF cutter[w] # "exited_ok"
       THEN /\ Fails(w, "cutter")
            /\ Emit(w, Finished(FALSE, "auto-editor failed. Check that the video has audio."))
            /\ pc' = [pc EXCEPT ![w] = "fail_cleanup"]
            /\ UNCHANGED temp
       ELSE /\ EmitAll(w, <<Progress(98, "Cleaning up..."), Progress(100, "Complete!"),
                            Finished(TRUE, "Video saved")>>)
            /\ temp' = [temp EXCEPT ![w] = CleanedUp(@)]
            /\ pc' = [pc EXCEPT ![w] = "exiting"]
            /\ UNCHANGED failure
    /\ UNCHANGED <<cancelled, options, started, info, working_file, cutter, polls,
                   elapsed, guiVars, call>>

\* Lines 310-311 with a _cleanup that lets an exception through to run()'s
\* handler.
W_FailCleanup_Raises(w) ==
    /\ pc[w] = "fail_cleanup"
    /\ Emit(w, Finished(FALSE, "Error"))
    /\ pc' = [pc EXCEPT ![w] = "exiting"]
    /\ UNCHANGED <<cancelled, options, failure, started, info, temp, working_file, cutter,
                   polls, elapsed, guiVars, call>>

\* Lines 310-311
W_FailCleanup(w) ==
    /\ pc[w] = "fail_cleanup"
    /\ temp' = [temp EXCEPT ![w] = CleanedUp(@)]
    /\ pc' = [pc EXCEPT ![w] = "exiting"]
    /\ UNCHANGED <<cancelled, options, failure, emitted, started, info, working_file, cutter,
                   polls, elapsed, guiVars, call>>

\* run() returns: the thread is no longer running
W_Return(w) ==
    /\ pc[w] = "exiting"
    /\ pc' = [pc EXCEPT ![w] = "returned"]
    /\ UNCHANGED <<cancelled, options, failure, emitted, started, info, temp, working_file,
                   cutter, polls, elapsed, guiVars, call>>

-----------------------------------------------------------------------------
(* MainWindow                                                              *)

\* QThread.isRunning(): started and run() has not returned
isRunning(w) == pc[w] \notin {"idle", "returned"}

\* A click reaches a button that is enabled and shown while no modal dialog
\* blocks the window.
Clickable(btn) == btn.enabled /\ btn.visible /\ dialog = "none"

\* Lines 583-611: the input text changes to a path that is a file, or not
on_input_changed ==
    /\ dialog = "none"
    /\ \E isfile \in BOOLEAN : process_btn' = [process_btn EXCEPT !.enabled = isfile]
    /\ UNCHANGED <<workerVars, processing_thread, cancel_btn, progress_bar, dialog,
                   delivered, call>>

\* Lines 636-655: the options are gathered, the window enters the processing
\* state and a new thread is created and started.
LaunchThread ==
    LET w == processing_thread + 1
    IN  /\ w \in Runs
        /\ \E o \in WorkerOptions : options' = [options EXCEPT ![w] = o]
        /\ process_btn' = [enabled |-> FALSE, visible |-> FALSE]
        /\ cancel_btn' = [enabled |-> TRUE, visible |-> TRUE]
        /\ progress_bar' = 0
        /\ processing_thread' = w
        /\ pc' = [pc EXCEPT ![w] = "entry"]
        /\ UNCHANGED <<cancelled, emitted, started, info, temp, working_file, cutter,
                       polls, elapsed, failure, delivered, call>>

\* Lines 613-633: the click on the process button, up to the first dialog
start_processing ==
    /\ Clickable(process_btn)
    /\ processing_thread < MaxRuns
    /\ \E input_isfile \in BOOLEAN, output_path_given \in BOOLEAN, output_exists \in BOOLEAN :
        IF ~input_isfile \/ ~output_path_given
        THEN /\ dialog' = "warning"
             /\ UNCHANGED <<workerVars, processing_thread, process_btn, cancel_btn,
                            progress_bar, delivered, call>>
        ELSE IF output_exists
        THEN /\ dialog' = "question"
             /\ UNCHANGED <<workerVars, processing_thread, process_btn, cancel_btn,
                            progress_bar, delivered, call>>
        ELSE /\ LaunchThread
             /\ UNCHANGED dialog

\* Lines 627-633: the answer to "Overwrite?"
answer_overwrite ==
    /\ dialog = "question"
    /\ dialog' = "none"
    /\ \E yes \in BOOLEAN :
        IF yes THEN LaunchThread
        ELSE UNCHANGED <<workerVars, processing_thread, process_btn, cancel_btn,
                         progress_bar, delivered, call>>

\* Lines 657-661
cancel_processing ==
    /\ Clickable(cancel_btn)
    /\ IF processing_thread # 0 /\ isRunning(processing_thread)
       THEN cancelled' = [cancelled EXCEPT ![processing_thread] = TRUE]
       ELSE UNCHANGED cancelled
    /\ UNCHANGED <<pc, options, emitted, started, info, temp, working_file, cutter,
                   polls, elapsed, failure, guiVars, call>>

NextSignal(w) == emitted[w][delivered[w] + 1]

\* Lines 663-666: a queued progress signal reaches its slot
on_progress(w) ==
    /\ delivered[w] < Len(emitted[w])
    /\ NextSignal(w).sig = "progress"
    /\ progress_bar' = NextSignal(w).percent
    /\ delivered' = [delivered EXCEPT ![w] = @ + 1]
    /\ UNCHANGED <<workerVars, processing_thread, process_btn, cancel_btn, dialog, call>>

\* Lines 668-682: a queued finished signal reaches its slot
on_finished(w) ==
    /\ delivered[w] < Len(emitted[w])
    /\ NextSignal(w).sig = "finished"
    /\ process_btn' = [enabled |-> TRUE, visible |-> TRUE]
    /\ cancel_btn' = [enabled |-> FALSE, visible |-> FALSE]
    /\ progress_bar' = IF NextSignal(w).success THEN 100 ELSE 0
    /\ dialog' = "result"
    /\ delivered' = [delivered EXCEPT ![w] = @ + 1]
    /\ UNCHANGED <<workerVars, processing_thread, call>>

\* The user closes a warning or a result box.
dismiss_dialog ==
    /\ dialog \in {"warning", "result"}
    /\ dialog' = "none"
    /\ UNCHANGED <<workerVars, processing_thread, process_btn, cancel_btn,
                   progress_bar, delivered, call>>

\* The steps of run() other than the two that consume cutter output or time.
Worker(w) ==
    \/ W_CheckEntry(w)
    \/ W_Analyze(w)
    \/ W_Analyzed(w)
    \/ W_Preprocess(w)
    \/ W_StartFfmpeg(w)
    \/ W_FfmpegDone(w)
    \/ W_CheckBeforeCutter(w)
    \/ W_StartCutter(w)
    \/ W_LoopCheck(w)
    \/ W_Break(w)
    \/ W_AfterLoop(w)
    \/ W_FailCleanup(w)
    \/ W_Return(w)

Common ==
    \/ on_input_changed
    \/ answer_overwrite
    \/ cancel_processing
    \/ dismiss_dialog
    \/ \E w \in Runs : on_progress(w)
    \/ \E w \in Runs : on_finished(w)
    \/ \E w \in Runs : CutterExits(w)
    \/ \E w \in Runs : Worker(w)

\* The first click on the process button of a window.
first_start == processing_thread = 0 /\ start_processing

\* Spec: the first thread a window starts, with everything the cutter may
\* print and every way the clock may advance.
Next ==
    \/ Common
    \/ first_start
    \/ \E w \in Runs : W_ReadLine(w)
    \/ \E w \in Runs : W_Timeout(w)

Spec == Init /\ [][Next]_vars

\* SpecRerun: up to MaxRuns threads started one after the other, each with a
\* cutter that prints nothing and exits before select times out.
NextRerun ==
    \/ Common
    \/ start_processing

SpecRerun == Init /\ [][NextRerun]_vars

-----------------------------------------------------------------------------
(* SpecFn: one call of a module-level helper on an input drawn from the    *)
(* sets below; the worker and the window stay as constructed.              *)

MaxBitrate == 20002

Bitrates == (0 - 1)..MaxBitrate

\* The ranges of the two spin boxes.
ThresholdMin == 1

ThresholdMax == 20

MarginMin == 0

MarginMax == 30

\* A frame-rate key of a stream, with what its text stands for: "ratio" is a
\* text for n/d, "decimal" a text float() reads as n/d, "special" a text
\* float() reads as inf or nan, "absent" a missing key, "null" a key that
\* holds None, and the other kinds are texts that are not a frame rate.
RatioRate(n, d) ==
    [kind |-> "ratio", n |-> n, d |-> d,
     text |-> Present(Some(IntStr(n) \o <<"/">> \o IntStr(d)))]

\* A ratio or decimal written another way than str() writes it.
Written(kind, n, d, text) == [kind |-> kind, n |-> n, d |-> d, text |-> Present(Some(text))]

DecimalRate(whole, hundredths) ==
    Written("decimal", whole * 100 + hundredths, 100,
            NatStr(whole) \o <<".">> \o NatStr(hundredths \div 10) \o NatStr(hundredths % 10))

WholeRate(n) == Written("decimal", n, 1, NatStr(n))

AbsentRate == [kind |-> "absent", n |-> 0, d |-> 0, text |-> Absent]

NullRate == [kind |-> "null", n |-> 0, d |-> 0, text |-> Present(None)]

BadRate(kind, text) == Written(kind, 0, 0, text)

RateNums == {0, 15, 25, 28, 30, 32, 33, 2005, 4007, 24000, 30000, 0 - 30}

RateDens == {0, 1, 2, 1001, 0 - 1}

\* Texts int() and float() accept beyond plain digits.
WrittenRates ==
    {Written("ratio", 30, 1, <<" ", "3", "0", "/", "1">>),
     Written("ratio", 30, 1, <<"3", "0", " ", "/", " ", "1", "\n">>),
     Written("ratio", 1000, 1001, <<"+", "1", "_", "0", "0", "0", "/", "1", "0", "0", "1">>),
     Written("decimal", 30, 1, <<"+", "3", "0">>),
     Written("decimal", 30, 1, <<"3", "e", "1">>),
     Written("decimal", 5, 10, <<"5", "E", "-", "1">>),
     Written("decimal", 5, 10, <<"\t", ".", "5", " ">>),
     Written("special", 0, 0, <<"n", "a", "n">>),
     Written("special", 1, 0, <<"I", "n", "f">>),
     Written("special", 0 - 1, 0, <<"-", "i", "n", "f", "i", "n", "i", "t", "y">>),
     Written("special", 1, 0, <<"1", "e", "9", "9", "9">>)}

BadRates ==
    {BadRate("extra_slash", <<"3", "0", "/", "1", "/", "1">>),
     BadRate("non_integer", <<"x", "/", "1">>),
     BadRate("non_integer", <<"3", "0", "/", "x">>),
     BadRate("non_integer", <<"2", "9", ".", "9", "7", "/", "1">>),
     BadRate("non_integer", <<"3", "0", "/">>),
     BadRate("non_integer", <<"/", "1">>),
     BadRate("non_integer", <<"3", " ", "0", "/", "1">>),
     BadRate("non_integer", <<"3", "_", "/", "1">>),
     BadRate("not_a_number", <<"x">>),
     BadRate("not_a_number", <<"1", "e">>),
     BadRate("not_a_number", <<>>)}

RateInputs ==
    {RatioRate(n, d) : n \in RateNums, d \in RateDens}
    \cup {DecimalRate(29, 97), DecimalRate(23, 98), WholeRate(30), AbsentRate, NullRate}
    \cup WrittenRates
    \cup BadRates

RateProbe(r, avg) ==
    [raises |-> FALSE, returncode |-> 0,
     streams |-> Present(Some(<< VideoStream(r.text, avg.text) >>)),
     format |-> Present(Some([duration |-> Present(Some(<<"1", "0", ".", "5">>)),
                              bit_rate |-> Present(Some(NatStr(5000000)))]))]

AudioStream(name) ==
    [codec_type |-> "audio", codec_name |-> name, width |-> Absent, height |-> Absent,
     r_frame_rate |-> Absent, avg_frame_rate |-> Absent]

BareVideoStream ==
    [codec_type |-> "video", codec_name |-> Absent, width |-> Absent, height |-> Absent,
     r_frame_rate |-> Absent, avg_frame_rate |-> Absent]

\* Other answers of ffprobe: failures, no video stream, streams in either
\* order, keys that are absent, hold None or hold text that is no number.
OtherProbes ==
    {ProbeFailed,
     [ProbeFailed EXCEPT !.raises = TRUE, !.returncode = 0],
     [raises |-> FALSE, returncode |-> 0, streams |-> Present(None), format |-> Absent],
     [raises |-> FALSE, returncode |-> 0, streams |-> Present(Some(<< BareVideoStream >>)),
      format |-> Present(None)]}
    \cup {[raises |-> FALSE, returncode |-> 0, streams |-> ss, format |-> f] :
            ss \in {Absent,
                    Present(Some(<<>>)),
                    Present(Some(<< AudioStream(Present(Some(<<"a", "a", "c">>))) >>)),
                    Present(Some(<< BareVideoStream >>)),
                    Present(Some(<< [BareVideoStream EXCEPT !.codec_name = Present(None)],
                                    AudioStream(Present(None)) >>)),
                    Present(Some(<< [BareVideoStream EXCEPT !.width = Present(None)] >>)),
                    Present(Some(<< AudioStream(Absent), BareVideoStream >>)),
                    Present(Some(<< BareVideoStream,
                                    VideoStream(Present(Some(<<"6", "0", "/", "1">>)), Absent),
                                    AudioStream(Present(Some(<<"a", "a", "c">>))),
                                    AudioStream(Absent) >>))},
            f \in {Absent,
                   Present(Some(NoFormat)),
                   Present(Some([duration |-> Present(Some(<<"0">>)),
                                 bit_rate |-> Present(Some(NatStr(999)))])),
                   Present(Some([duration |-> Present(Some(<<"3", "6", "0", "0", ".", "0", "4">>)),
                                 bit_rate |-> Present(Some(NatStr(25000999)))])),
                   Present(Some([duration |-> Present(None),
                                 bit_rate |-> Present(Some(NatStr(999)))])),
                   Present(Some([duration |-> Present(Some(<<"N", "/", "A">>)),
                                 bit_rate |-> Present(Some(NatStr(999)))])),
                   Present(Some([duration |-> Present(Some(<<"n", "a", "n">>)),
                                 bit_rate |-> Present(Some(<<" ", "1", "_", "0", "0", "0", "\n">>))])),
                   Present(Some([duration |-> Present(Some(<<"1", "0">>)),
                                 bit_rate |-> Present(Some(<<"N", "/", "A">>))]))}}

CodecNames ==
    {<<"a", "v", "1">>, <<"A", "V", "1">>, <<"A", "v", "1">>, <<"a", "v">>,
     <<"a", "v", "1", "x">>, <<"x", "a", "v", "1">>, <<"Ä", "V", "1">>,
     <<"m", "p", "e", "g", "2", "v", "i", "d", "e", "o">>,
     <<"M", "P", "E", "G", "2", "V", "I", "D", "E", "O">>,
     <<"m", "p", "e", "g", "1", "v", "i", "d", "e", "o">>,
     <<"m", "p", "e", "g", "4">>,
     <<"w", "m", "v", "3">>, <<"W", "M", "V", "3">>, <<"w", "m", "v", "2">>,
     <<"t", "h", "e", "o", "r", "a">>, <<"T", "h", "e", "o", "r", "a">>,
     <<"t", "h", "É", "o", "r", "a">>,
     <<"h", "2", "6", "4">>, <<"H", "2", "6", "4">>, <<"h", "e", "v", "c">>,
     <<"v", "p", "9">>, UnknownStr, <<>>}

\* Video infos: analyze_video gives a codec of None for a codec_name of null.
InfoInputs ==
    {[codec |-> c, width |-> wd, height |-> wd, fps |-> f, duration |-> du,
      bitrate |-> b, audio_codec |-> a, is_variable_framerate |-> v] :
        c \in {None} \cup {Some(x) : x \in CodecNames},
        wd \in {0, 1080}, f \in {Rat(30, 1), Rat(24000, 1001)},
        du \in {Rat(0, 1), Rat(21, 2)}, b \in {0, 25000},
        a \in {Some(<<"a", "a", "c">>), Some(<<"n", "o", "n", "e">>)},
        v \in BOOLEAN}

CmdOptions ==
    {[threshold |-> t, margin |-> mg, auto_fix |-> Present(Some(TRUE)), silent_speed |-> ss] :
        t \in {Absent, Present(None)} \cup {Present(Some(x)) : x \in ThresholdMin..ThresholdMax},
        mg \in {Absent} \cup {Present(Some(x)) : x \in MarginMin..MarginMax},
        ss \in {Absent, Present(Some(SilentSpeedDefault)),
                Present(Some(SilentSpeedDefault - 1)), Present(Some(8))}}

CallGetTargetCrf ==
    /\ call.op = "none"
    /\ \E b \in Bitrates :
        call' = [op |-> "get_target_crf", arg |-> b, res |-> get_target_crf(b)]
    /\ UNCHANGED <<workerVars, guiVars>>

CallNeedsPreprocessing ==
    /\ call.op = "none"
    /\ \E i \in InfoInputs :
        call' = [op |-> "needs_preprocessing", arg |-> i, res |-> needs_preprocessing(i)]
    /\ UNCHANGED <<workerVars, guiVars>>

CallAnalyzeVideo ==
    /\ call.op = "none"
    /\ \/ \E r \in RateInputs, avg \in RateInputs :
            call' = [op |-> "analyze_video", rates |-> TRUE, r |-> r, avg |-> avg,
                     arg |-> RateProbe(r, avg), res |-> analyze_video(RateProbe(r, avg))]
       \/ \E p \in OtherProbes :
            call' = [op |-> "analyze_video", rates |-> FALSE, r |-> AbsentRate, avg |-> AbsentRate,
                     arg |-> p, res |-> analyze_video(p)]
    /\ UNCHANGED <<workerVars, guiVars>>

CallCutterCmd ==
    /\ call.op = "none"
    /\ \E o \in CmdOptions, wf \in {InputPath, TempFile},
          existing \in SUBSET {AutoEditorPaths[1], AutoEditorPaths[2]} :
        call' = [op |-> "cutter_cmd",
                 arg |-> [exe |-> find_auto_editor(existing), working_file |-> wf,
                          output_path |-> OutputPath, options |-> o],
                 res |-> cutter_cmd(find_auto_editor(existing), wf, OutputPath, o)]
    /\ UNCHANGED <<workerVars, guiVars>>

NextFn ==
    \/ CallGetTargetCrf
    \/ CallNeedsPreprocessing
    \/ CallAnalyzeVideo
    \/ CallCutterCmd

SpecFn == Init /\ [][NextFn]_vars

-----------------------------------------------------------------------------
(* Properties.                                                             *)

IsProgress(sig) == sig.sig = "progress"

IsFinished(sig) == sig.sig = "finished"

\* The percentages a thread has emitted, in order.
Percents(w) ==
    LET ps == SelectSeq(emitted[w], IsProgress)
    IN  [i \in 1..Len(ps) |-> ps[i].percent]

\* The completion signals a thread has emitted, in order.
Completions(w) == SelectSeq(emitted[w], IsFinished)

Succeeded(w) == \E i \in 1..Len(emitted[w]) : IsFinished(emitted[w][i]) /\ emitted[w][i].success

NonDecreasing(seq) == \A i \in 1..(Len(seq) - 1) : seq[i] <= seq[i + 1]

\* C1: in a run that ended in success the percentages emitted on the progress
\* signal never decrease, and the last one is 100.
C1_ProgressNonDecreasing ==
    \A w \in Runs :
        Succeeded(w) =>
            /\ NonDecreasing(Percents(w))
            /\ Percents(w)[Len(Percents(w))] = 100

\* C2: get_target_crf returns 18 above 20000 kbps, 20 above 8000 up to 20000,
\* 22 above 4000 up to 8000 and 23 up to 4000; 20000 gives 20 and 20001 gives 18.
C2_CrfBuckets ==
    call.op = "get_target_crf" =>
        LET b == call.arg
            r == call.res
        IN  /\ r \in {18, 20, 22, 23}
            /\ (r = 18) <=> (b > 20000)
            /\ (r = 20) <=> (8000 < b /\ b <= 20000)
            /\ (r = 22) <=> (4000 < b /\ b <= 8000)
            /\ (r = 23) <=> (b <= 4000)
            /\ (b = 20000 => r = 20)
            /\ (b = 20001 => r = 18)

C2_Witness == call.op = "get_target_crf" /\ call.arg = 20001 /\ call.res = 18

\* C3: a run that has returned from run() has emitted a completion signal,
\* whatever its outcome.
C3_CompletionSignalled ==
    \A w \in Runs : pc[w] = "returned" => Len(Completions(w)) > 0

\* C4: the flag is honoured at each step boundary: no child process is
\* launched after a step that ended with the flag already set by cancel().
C4_NoLaunchAfterCancel ==
    \A w \in Runs : \A i \in 2..Len(started[w]) : started[w][i - 1].end_flag # "set"

\* A step of the run has failed: the probe gave no result, the re-encoder
\* exited non-zero or a call raised (each met by the worker where it
\* happens), or the cutter has exited non-zero, seen by the worker or not.
StepFailed(w) == failure[w].kind # "none" \/ cutter[w] = "exited_err"

\* C5: a run that has returned and in which a step failed has emitted exactly
\* one completion signal, with success false and a message; it launched no
\* child process after the failure it met, and it emitted neither a success
\* nor the value 100.
C5_FailureSignalledOnce ==
    \A w \in Runs :
        pc[w] = "returned" /\ StepFailed(w) =>
            /\ Len(Completions(w)) = 1
            /\ ~Completions(w)[1].success
            /\ Completions(w)[1].message # ""
            /\ failure[w].kind # "none" => Len(started[w]) = failure[w].launched
            /\ \A i \in 1..Len(Percents(w)) : Percents(w)[i] # 100

\* C6: at most one thread is running at any time.
C6_OneWorkerAtATime == Cardinality({w \in Runs : isRunning(w)}) <= 1

\* C7: for a video info with a codec name, needs_preprocessing lists a
\* variable-frame-rate issue exactly when is_variable_framerate is set and a
\* codec issue exactly when the lower-cased codec is av1, mpeg2video,
\* mpeg1video, wmv3 or theora, and nothing else.
C7_IssuesExact ==
    (call.op = "needs_preprocessing" /\ ~IsNone(call.arg.codec)) =>
        /\ ~IsNone(call.res)
        /\ LET i == call.arg
               issues == Val(call.res)
               flagged == \E k \in 1..Len(problematic_codecs) :
                              Lower(Val(i.codec)) = problematic_codecs[k]
               vfrAt == {k \in 1..Len(issues) : issues[k][1] = "vfr"}
               codecAt == {k \in 1..Len(issues) : issues[k][1] = "codec"}
           IN  /\ Cardinality(vfrAt) = (IF i.is_variable_framerate THEN 1 ELSE 0)
               /\ Cardinality(codecAt) = (IF flagged THEN 1 ELSE 0)
               /\ Len(issues) = Cardinality(vfrAt) + Cardinality(codecAt)
               /\ \A k \in codecAt : issues[k][2] = Val(i.codec)

C7_Witness ==
    /\ call.op = "needs_preprocessing"
    /\ call.arg.codec = Some(<<"A", "V", "1">>)
    /\ ~call.arg.is_variable_framerate
    /\ call.res = Some(<< <<"codec", <<"A", "V", "1">> >> >>)

\* The rate a frame-rate field stands for: its ratio or decimal value, and
\* fallback when the field is absent or its denominator is 0.
RateOr(r, fallback) ==
    IF r.kind \in {"ratio", "decimal"} /\ r.d # 0 THEN Rat(r.n, r.d) ELSE fallback

\* C8: for frame-rate fields that are ratios, decimals or absent,
\* is_variable_framerate is set exactly when the nominal and the average rate
\* differ by more than 2; an absent average or one with denominator 0 is the
\* nominal rate, and the flag is then not set.
C8_VfrFlagExact ==
    (/\ call.op = "analyze_video"
     /\ ~IsNone(call.res)
     /\ call.r.kind \in {"ratio", "decimal", "absent"}
     /\ call.avg.kind \in {"ratio", "decimal", "absent"}) =>
        LET nominal == RateOr(call.r, [n |-> 30, d |-> 1])
            average == RateOr(call.avg, nominal)
            flag == Val(call.res).is_variable_framerate
            far == Abs(nominal.n * average.d - average.n * nominal.d)
                       > VfrTolerance * nominal.d * average.d
        IN  /\ flag <=> far
            /\ (call.avg.kind = "absent" \/ (call.avg.kind = "ratio" /\ call.avg.d = 0)) => ~flag

\* C9: the frame rate of the result is num/den for a text "num/den" with den
\* not 0, and 30 when the field is absent, has a zero denominator, has a part
\* that is no integer or has more than one '/'; a result is produced in each
\* of these cases.
C9_FrameRateFallback ==
    (call.op = "analyze_video" /\ call.rates /\ call.avg.kind = "absent"
        /\ call.r.kind \in {"ratio", "absent", "non_integer", "extra_slash"}) =>
        /\ ~IsNone(call.res)
        /\ LET fps == Val(call.res).fps
               want == RateOr(call.r, [n |-> 30, d |-> 1])
           IN  fps.n * want.d = want.n * fps.d

\* C10: the cutter command is [executable, working_file, '-o', output_path]
\* followed, in this order, by the threshold flag iff threshold # 4, the
\* margin flag iff margin # 6 and the silent-speed flag iff silent_speed # 99999.
C10_CutterCmdShape ==
    call.op = "cutter_cmd" =>
        LET cmd == call.res
            a == call.arg
            Option(key, default) ==
                IF a.options[key] = Absent THEN Some(default) ELSE Val(a.options[key])
            threshold == Option("threshold", 4)
            margin == Option("margin", 6)
            silent_speed == Option("silent_speed", 99999)
            Str(v) == IF IsNone(v) THEN <<"None">> ELSE IntStr(Val(v))
            atT == 5
            atM == atT + (IF threshold # Some(4) THEN 2 ELSE 0)
            atS == atM + (IF margin # Some(6) THEN 2 ELSE 0)
            end == atS + (IF silent_speed # Some(99999) THEN 2 ELSE 0)
            Has(flag) == \E k \in 1..Len(cmd) : cmd[k] = <<flag>>
        IN  /\ Len(cmd) = end - 1
            /\ SubSeq(cmd, 1, 4) = <<a.exe, a.working_file, <<"-o">>, a.output_path>>
            /\ Has("--edit") <=> threshold # Some(4)
            /\ Has("--margin") <=> margin # Some(6)
            /\ Has("--silent-speed") <=> silent_speed # Some(99999)
            /\ threshold # Some(4) =>
                /\ cmd[atT] = <<"--edit">>
                /\ cmd[atT + 1] = <<"audio:threshold=">> \o Str(threshold) \o <<"%">>
            /\ margin # Some(6) =>
                /\ cmd[atM] = <<"--margin">>
                /\ cmd[atM + 1] = Str(margin) \o <<"f">>
            /\ silent_speed # Some(99999) =>
                /\ cmd[atS] = <<"--silent-speed">>
                /\ cmd[atS + 1] = Str(silent_speed)

C10_Witness ==
    /\ call.op = "cutter_cmd"
    /\ call.arg.options.threshold = Present(Some(4))
    /\ call.arg.options.margin = Present(Some(4))
    /\ call.arg.options.silent_speed = Present(Some(8))
    /\ Len(call.res) = 8

\* C11: a run that created the temporary directory (auto_fix enabled) has
\* removed it by the time run() returns, whatever path it left by.
C11_TempDirDiscarded ==
    \A w \in Runs :
        pc[w] = "returned" /\ temp[w].dir # "none" => temp[w].dir = "removed"

\* C12: a run emits the finished signal at most once, and once it has emitted
\* it the worker emits no further signal and launches no further child process.
C12_FinishedTerminal ==
    /\ [](\A w \in Runs : Len(Completions(w)) <= 1)
    /\ [][\A w \in Runs :
            Len(Completions(w)) > 0 =>
                /\ emitted'[w] = emitted[w]
                /\ Len(started'[w]) = Len(started[w])]_vars

\* A run that emitted finished and then went on to clean up and return.
C12_Witness ==
    \E w \in Runs :
        /\ pc[w] = "returned"
        /\ failure[w].kind = "cutter"
        /\ temp[w].dir = "removed"
        /\ Len(Completions(w)) = 1
        /\ Len(started[w]) = 3

\* Where the worker stands before a cancel check it has yet to perform: from
\* the entry of _process up to the check that opens a polling-loop iteration.
BeforeCancelCheck ==
    {"entry", "step1", "probing", "step2", "popen_ffmpeg", "reencoding",
     "check2", "popen_cutter", "loop"}

NoSuccess(w) ==
    /\ ~Succeeded(w)
    /\ \A i \in 1..Len(Percents(w)) : Percents(w)[i] # 100

\* C13: once the flag is set while the worker still has a cancel check ahead
\* of it (the check of the iteration in which it would leave the loop at the
\* latest), the run never emits the value 100 nor a completion with success
\* true; and when the check of a polling-loop iteration sees the flag, the
\* worker leaves _process and a cutter that was running has been terminated.
C13_CancelPreventsSuccess ==
    /\ \A w \in Runs :
        [](cancelled[w] /\ pc[w] \in BeforeCancelCheck => []NoSuccess(w))
    /\ [][\A w \in Runs :
            pc[w] = "loop" /\ cancelled[w] /\ pc'[w] # "loop" =>
                /\ pc'[w] = "exiting"
                /\ cutter[w] = "running" => cutter'[w] = "terminated"]_vars

\* The flag was set before the cutter was launched, the first check of the
\* loop saw it, and the worker terminated the cutter and returned.
C13_Witness ==
    \E w \in Runs :
        /\ pc[w] = "returned"
        /\ cancelled[w]
        /\ Len(started[w]) = 3
        /\ started[w][3].step = "cutter"
        /\ started[w][3].flag
        /\ cutter[w] = "terminated"

\* C14: every percentage emitted is an integer in 5..100; the value 100 is
\* emitted only by a run whose cutter exited with status 0 and that met no
\* failure, and the signal right after it is the completion with success true;
\* and every percentage the worker emits from inside the polling loop is in
\* 40..95.
C14_PercentRanges ==
    /\ [](\A w \in Runs : \A i \in 1..Len(emitted[w]) :
            IsProgress(emitted[w][i]) =>
                /\ emitted[w][i].percent \in 5..100
                /\ emitted[w][i].percent = 100 =>
                    /\ cutter[w] = "exited_ok"
                    /\ failure[w].kind = "none"
                    /\ i < Len(emitted[w])
                    /\ IsFinished(emitted[w][i + 1])
                    /\ emitted[w][i + 1].success)
    /\ [][\A w \in Runs :
            pc[w] \in {"loop", "select"} =>
                \A i \in (Len(emitted[w]) + 1)..Len(emitted'[w]) :
                    IsProgress(emitted'[w][i]) => emitted'[w][i].percent \in 40..95]_vars

\* A successful run whose loop emitted 95 for a "100%" line and then the
\* capped elapsed-time estimate 92.
C14_Witness ==
    \E w \in Runs :
        /\ Succeeded(w)
        /\ \E i \in 1..(Len(Percents(w)) - 1) :
            /\ Percents(w)[i] = 95
            /\ Percents(w)[i + 1] = 92
        /\ Percents(w)[Len(Percents(w))] = 100

====
